---- MODULE Spec2Model ----
(***************************************************************************)
(* Model of the image-upload server (Fastify routes, the WebSocket         *)
(* connection registry and the notification timer) together with the       *)
(* external collaborators it talks to (Google OAuth, Cloud Storage, the     *)
(* thumbnail function).  Names of objects, users and files are sequences    *)
(* of one-character strings so that prefixes, path.basename, path.extname   *)
(* and String.replace are computed rather than assumed.                     *)
(***************************************************************************)
EXTENDS Naturals, Sequences, FiniteSets, TLC

\* ------------------------------------------------------------------ bounds
MaxConns == 2
MaxUploads == 2
MaxMessages == 5
MaxSelects == 3
MaxRefreshes == 1

\* ------------------------------------------------------- names and strings
\* request.session.user is undefined: the empty id (falsy, like undefined)
None == << >>

\* Google account ids; one is a proper prefix of the other
UserIds == { <<"1">>, <<"1", "2">> }

Sessions == { "s1", "s2", "s3" }

Slash == <<"/">>
Dot == <<".">>
ThumbnailsDir == <<"t", "h", "u", "m", "b", "n", "a", "i", "l", "s", "/">>
ThumbTag == <<"t", "h", "u", "m", "b", "_">>

\* characters uuidv4() is made of here: never a slash or a dot
UuidChars == <<"A", "B", "C", "D">>

uuidRepeated(k) == <<UuidChars[1]>>

uuidv4(k) == <<UuidChars[k]>>

\* file names a client can put in the multipart part or in the URL parameter
ClientNames ==
  { << >>, <<"a", ".", "p">>, <<".", ".">>, <<"x", "/", ".", ".">>,
    <<".", ".", "/", "1", "2", "/", "a", ".", "p">>, <<".", "p">> }

StartsWith(s, p) == Len(p) <= Len(s) /\ SubSeq(s, 1, Len(p)) = p

EndsWith(s, p) == Len(p) <= Len(s) /\ SubSeq(s, Len(s) - Len(p) + 1, Len(s)) = p

\* String.prototype.replace(pattern, replacement) with a string pattern:
\* the first (leftmost) occurrence only
Replace(s, pat, rep) ==
  LET hits == { i \in 1..(Len(s) - Len(pat) + 1) : SubSeq(s, i, i + Len(pat) - 1) = pat }
  IN IF hits = {} THEN s
     ELSE LET i == CHOOSE j \in hits : \A h \in hits : j <= h
          IN SubSeq(s, 1, i - 1) \o rep \o SubSeq(s, i + Len(pat), Len(s))

\* the last path segment as path.basename and path.extname both find it:
\* trailing slashes are skipped, then everything after the last slash
LastSegment(p) ==
  LET ends == { i \in 1..Len(p) : p[i] # "/" }
  IN IF ends = {} THEN << >>
     ELSE LET e == CHOOSE i \in ends : \A j \in ends : j <= i
              slashes == { i \in 1..e : p[i] = "/" }
              st == IF slashes = {} THEN 1
                    ELSE (CHOOSE i \in slashes : \A j \in slashes : j <= i) + 1
          IN SubSeq(p, st, e)

basename(p) == LastSegment(p)

\* path.extname: from the last dot of the last segment, but empty when there
\* is no dot, when the dot is the first character, or when the segment is ".."
extname(p) ==
  LET b == LastSegment(p)
      dots == { i \in 1..Len(b) : b[i] = "." }
  IN IF dots = {} THEN << >>
     ELSE LET d == CHOOSE i \in dots : \A j \in dots : j <= i
          IN IF d = 1 \/ b = <<".", ".">> THEN << >>
             ELSE SubSeq(b, d, Len(b))

\* ------------------------------------------------------------------- state
VARIABLES
  sessionUser,   \* session store: session -> request.session.user?.id (None: no user)
  credentials,   \* oAuth2Client.credentials (shared by all requests): whose tokens
  cb,            \* OAuth callback request in flight per session
  conns,         \* every WebSocket ever accepted at /ws, in order of arrival
  connections,   \* the Map<string, any> registry: user id -> index into conns
  timers,        \* pending setTimeout callbacks of POST /api/images
  storage,       \* object names in the bucket
  nextUuid,      \* how many uuids were drawn
  uploaded,      \* history: [userId, filename] of every successful upload
  dropped,       \* history: filenames whose timer fired with no registry entry
  reply,         \* the last HTTP response sent
  dashboard,     \* the browser: Dashboard and Notifications state
  uploader,      \* the browser: ImageUploader state
  gallery        \* the browser: ImageList state and its requests under way

serverVars == <<sessionUser, credentials, cb, conns, connections, timers, storage,
                nextUuid, uploaded, dropped, reply>>

clientVars == <<dashboard, uploader, gallery>>

vars == <<serverVars, clientVars>>

IdleCb == [pc |-> "idle", code |-> None, hdr |-> None]

NoReply == [route |-> "none", status |-> 0, to |-> "none", files |-> {}]

Reply(route, status) ==
  [route |-> route, status |-> status, to |-> "none", files |-> {}]

\* ImageUploader's useState initial values; preview names the file whose data
\* URL is shown, reads are the FileReaders still loading, inflight the
\* uploadImage calls not yet settled, sent the files given to uploadImage,
\* selects the calls of handleFileSelect so far, toasts the error toasts shown
UploaderInit ==
  [file |-> "null", preview |-> "null", status |-> "idle",
   reads |-> {}, inflight |-> 0, sent |-> {}, selects |-> 0, toasts |-> {}]

\* whether Dashboard has mounted, its refreshKey, the refreshKey of ImageList's
\* last committed render, the getImages calls issued, how many socket
\* messages Notifications has handled (PROCESSING_COMPLETE ones and the rest)
\* and the kind of the last one; the state of the socket Notifications holds,
\* how many times `new WebSocket` has run, and whether Dashboard has unmounted
DashboardInit ==
  [mounted |-> FALSE, refreshKey |-> 0, rendered |-> 0, fetches |-> 0,
   complete |-> 0, other |-> 0, last |-> "none",
   socket |-> "none", opened |-> 0, unmounted |-> FALSE]

\* ImageList's useState initial values (images, isLoading); issued counts the
\* getImages calls, fetches and deletes are the requests not yet settled,
\* shownFrom is the call whose answer the displayed list came from, clock the
\* second in which the last URLs were signed, gone the images for which a
\* successful delete response has been handled
GalleryInit ==
  [images |-> {}, isLoading |-> TRUE, issued |-> 0, shownFrom |-> 0,
   fetches |-> {}, deletes |-> {}, clock |-> 0, gone |-> {}]

ClientInit ==
  dashboard = DashboardInit /\ uploader = UploaderInit /\ gallery = GalleryInit

Init ==
  /\ ClientInit
  /\ sessionUser = [s \in Sessions |-> None]
  /\ credentials = None
  /\ cb = [s \in Sessions |-> IdleCb]
  /\ conns = << >>
  /\ connections = << >>
  /\ timers = {}
  /\ storage = {}
  /\ nextUuid = 0
  /\ uploaded = {}
  /\ dropped = {}
  /\ reply = NoReply

\* --------------------------------------------------------- Map operations
MapHas(m, k) == k \in DOMAIN m

MapSet(m, k, v) == [x \in (DOMAIN m) \cup {k} |-> IF x = k THEN v ELSE m[x]]

MapDelete(m, k) == [x \in (DOMAIN m) \ {k} |-> m[x]]

\* ------------------------------------------------------------- middleware
AlwaysAuthenticated(s) == TRUE

ensureAuthenticated(s) == sessionUser[s] # None

Unauthorized(route) ==
  /\ reply' = Reply(route, 401)
  /\ UNCHANGED <<sessionUser, credentials, cb, conns, connections, timers,
                 storage, nextUuid, uploaded, dropped>>

\* --------------------------------------------------------------- GET /ws
\* if (!user?.id) return connection.close()
WsRejectsNobody(user) == FALSE

WsRejects(user) == user = None

\* connections.set(user.id, connection)
WsRegister(m, user, c) == MapSet(m, user, c)

\* connection.on('close', () => connections.delete(user.id))
WsOnCloseKeeps(m, user, c) == m

WsOnClose(m, user, c) == MapDelete(m, user)

WsOpen(s) ==
  /\ Len(conns) < MaxConns
  /\ LET user == sessionUser[s]
         c == Len(conns) + 1
     IN IF WsRejects(user)
        THEN /\ conns' = Append(conns, [user |-> user, sess |-> s, open |-> FALSE,
                                        handler |-> FALSE, inbox |-> << >>])
             /\ UNCHANGED connections
        ELSE /\ conns' = Append(conns, [user |-> user, sess |-> s, open |-> TRUE,
                                        handler |-> TRUE, inbox |-> << >>])
             /\ connections' = WsRegister(connections, user, c)
  /\ UNCHANGED <<sessionUser, credentials, cb, timers, storage, nextUuid,
                 uploaded, dropped, reply>>

\* the socket closes (the client closed it or the network dropped it) and its
\* 'close' listener, if one was attached, runs
WsClose(c) ==
  /\ c \in DOMAIN conns
  /\ conns[c].open
  /\ conns' = [conns EXCEPT ![c].open = FALSE]
  /\ connections' = IF conns[c].handler
                    THEN WsOnClose(connections, conns[c].user, c)
                    ELSE connections
  /\ UNCHANGED <<sessionUser, credentials, cb, timers, storage, nextUuid,
                 uploaded, dropped, reply>>

\* ------------------------------------------------------------ OAuth routes
\* whose profile the userinfo request returns: that of the access token in
\* its Authorization header.  oAuth2Client.request() builds the header from
\* this.credentials in the turn in which it is called, right after
\* setCredentials(tokens), not when the response arrives
UserInfoOfSharedClient(header, shared) == shared

UserInfoId(header, shared) == header

CallbackStart(s, code) ==
  /\ cb[s].pc = "idle"
  /\ cb' = [cb EXCEPT ![s] = [pc |-> "getToken", code |-> code, hdr |-> None]]
  /\ UNCHANGED <<sessionUser, credentials, conns, connections, timers, storage,
                 nextUuid, uploaded, dropped, reply>>

LoggedIn == [Reply("callback", 302) EXCEPT !.to = "home"]

\* catch (err): reply.redirect(`${CLIENT_URL}/login-failed`)
LoginFailedRedirectsHome(s) ==
  /\ cb' = [cb EXCEPT ![s] = IdleCb]
  /\ reply' = LoggedIn

LoginFailed(s) ==
  /\ cb' = [cb EXCEPT ![s] = IdleCb]
  /\ reply' = [Reply("callback", 302) EXCEPT !.to = "login-failed"]

\* await getToken(code) returns; setCredentials(tokens); request(userinfo) is sent
CallbackGotToken(s, ok) ==
  /\ cb[s].pc = "getToken"
  /\ IF ok /\ cb[s].code # None
     THEN /\ credentials' = cb[s].code
          /\ cb' = [cb EXCEPT ![s].pc = "userinfo",
                              ![s].hdr = credentials']
          /\ UNCHANGED reply
     ELSE /\ LoginFailed(s)
          /\ UNCHANGED credentials
  /\ UNCHANGED <<sessionUser, conns, connections, timers, storage, nextUuid,
                 uploaded, dropped>>

\* await request(userinfo) returns; request.session.user = {id: userInfo.data.id}
CallbackUserInfo(s, ok) ==
  /\ cb[s].pc = "userinfo"
  /\ IF ok
     THEN /\ sessionUser' = [sessionUser EXCEPT ![s] = UserInfoId(cb[s].hdr, credentials)]
          /\ cb' = [cb EXCEPT ![s] = IdleCb]
          /\ reply' = LoggedIn
     ELSE /\ LoginFailed(s)
          /\ UNCHANGED sessionUser
  /\ UNCHANGED <<credentials, conns, connections, timers, storage, nextUuid,
                 uploaded, dropped>>

AuthMe(s) ==
  IF ensureAuthenticated(s)
  THEN /\ reply' = Reply("me", 200)
       /\ UNCHANGED <<sessionUser, credentials, cb, conns, connections, timers,
                      storage, nextUuid, uploaded, dropped>>
  ELSE Unauthorized("me")

\* request.session.destroy(): the session has no user afterwards
SessionSurvives(store, s) == store

SessionDestroy(store, s) == [store EXCEPT ![s] = None]

Logout(s, err) ==
  IF ensureAuthenticated(s)
  THEN /\ IF err
          THEN /\ reply' = Reply("logout", 500)
               /\ UNCHANGED sessionUser
          ELSE /\ reply' = Reply("logout", 200)
               /\ sessionUser' = SessionDestroy(sessionUser, s)
       /\ UNCHANGED <<credentials, cb, conns, connections, timers, storage,
                      nextUuid, uploaded, dropped>>
  ELSE Unauthorized("logout")

\* ------------------------------------------------------------ image routes
\* `${userId}/${uniqueFilename}`
FilePathShared(userId, name) == name

FilePath(userId, name) == userId \o Slash \o name

\* getFiles({ prefix: `thumbnails/${userId}/` })
ThumbPrefixOpen(userId) == ThumbnailsDir \o userId

ThumbPrefix(userId) == ThumbnailsDir \o userId \o Slash

\* `thumbnails/${userId}/thumb_${filename}`
ThumbPath(userId, name) == ThumbPrefix(userId) \o ThumbTag \o name

\* `${uuidv4()}.${path.extname(data.filename)}`
UniqueFilename(k, filename) == uuidv4(k) \o Dot \o extname(filename)

\* thumb.name.replace(`thumbnails/${userId}/thumb_`, `${userId}/`)
FullFileName(userId, thumbName) ==
  Replace(thumbName, ThumbPrefix(userId) \o ThumbTag, userId \o Slash)

\* a signed URL grants read access to exactly the object it was made for
SignedUrl(name) == name

\* the array GET /api/images answers for userId when the bucket holds store
ImageList(userId, store) ==
  LET files == { f \in store : StartsWith(f, ThumbPrefix(userId)) }
  IN { [thumbnailUrl |-> SignedUrl(thumb),
        fullUrl |-> SignedUrl(FullFileName(userId, thumb))] :
       thumb \in { f \in files : ~EndsWith(f, Slash) } }

GetImages(s, fails) ==
  IF ensureAuthenticated(s)
  THEN /\ reply' = IF fails THEN Reply("list", 500)
                   ELSE [Reply("list", 200) EXCEPT
                           !.files = ImageList(sessionUser[s], storage)]
       /\ UNCHANGED <<sessionUser, credentials, cb, conns, connections, timers,
                      storage, nextUuid, uploaded, dropped>>
  ELSE Unauthorized("list")

\* setTimeout(..., 5000) stands after `await pipeline(...)`: a write that
\* throws never reaches it
ArmedBeforeWrite(ts, t, written) == ts \cup {t}

TimersAfterUpload(ts, t, written) == IF written THEN ts \cup {t} ELSE ts

PostImages(s, hasFile, filename, writeOk) ==
  IF ensureAuthenticated(s)
  THEN IF ~hasFile
       THEN /\ reply' = Reply("upload", 400)
            /\ UNCHANGED <<sessionUser, credentials, cb, conns, connections,
                           timers, storage, nextUuid, uploaded, dropped>>
       ELSE /\ nextUuid < MaxUploads
            /\ LET userId == sessionUser[s]
                   uniqueFilename == UniqueFilename(nextUuid + 1, filename)
                   filePath == FilePath(userId, uniqueFilename)
               IN /\ nextUuid' = nextUuid + 1
                  /\ timers' = TimersAfterUpload(timers, [userId |-> userId,
                                                 filename |-> uniqueFilename], writeOk)
                  /\ IF writeOk
                     THEN /\ storage' = storage \cup {filePath}
                          /\ uploaded' = uploaded \cup {[userId |-> userId,
                                                         filename |-> uniqueFilename]}
                          /\ reply' = [Reply("upload", 200) EXCEPT
                                         !.files = {uniqueFilename}]
                     ELSE /\ reply' = Reply("upload", 500)
                          /\ UNCHANGED <<storage, uploaded>>
            /\ UNCHANGED <<sessionUser, credentials, cb, conns, connections, dropped>>
  ELSE Unauthorized("upload")

\* connections.has(userId) ? [connections.get(userId)] : []
NotifyEveryone(m, userId) == { m[k] : k \in DOMAIN m }

NotifyTargets(m, userId) == IF MapHas(m, userId) THEN {m[userId]} ELSE {}

\* what is left pending once the callback of timer t has run
TimersAfterRetry(ts, t, sent) == IF sent THEN ts \ {t} ELSE ts

TimersAfter(ts, t, sent) == ts \ {t}

\* connection.send(JSON.stringify(msg)): only an open socket transmits
Send(cs, c, msg) ==
  IF cs[c].open THEN [cs EXCEPT ![c].inbox = Append(@, msg)] ELSE cs

\* the setTimeout callback of an upload, 5000 ms after the write
TimerFire(t) ==
  /\ t \in timers
  /\ LET targets == NotifyTargets(connections, t.userId)
         msg == [type |-> "PROCESSING_COMPLETE", filename |-> t.filename]
     IN /\ conns' = [c \in DOMAIN conns |->
                       IF c \in targets THEN Send(conns, c, msg)[c] ELSE conns[c]]
        /\ dropped' = IF targets = {} THEN dropped \cup {t.filename} ELSE dropped
        /\ timers' = TimersAfter(timers, t, targets # {})
  /\ UNCHANGED <<sessionUser, credentials, cb, connections, storage, nextUuid,
                 uploaded, reply>>

\* bucket.file(name).delete(): 404 when the object is missing; an object that
\* exists is removed unless the request fails for another reason
DeleteOutcome(name, fails) ==
  IF name \notin storage THEN 404 ELSE IF fails THEN 500 ELSE 200

\* Promise.all rejects with whichever rejection comes first: err.code is the
\* code of either failed delete
DeleteStatusOfOriginal(r1, r2) == {r1}

DeleteStatus(r1, r2) == IF r1 = 200 /\ r2 = 200 THEN {200} ELSE {r1, r2} \ {200}

DeleteImage(s, rawName, fails1, fails2) ==
  IF ensureAuthenticated(s)
  THEN /\ LET userId == sessionUser[s]
              filename == basename(rawName)
              orig == FilePath(userId, filename)
              thumb == ThumbPath(userId, filename)
              r1 == DeleteOutcome(orig, fails1)
              r2 == DeleteOutcome(thumb, fails2)
          IN /\ storage' = storage \ ({ o \in {orig} : r1 = 200 } \cup
                                      { o \in {thumb} : r2 = 200 })
             /\ reply' \in { Reply("delete", code) : code \in DeleteStatus(r1, r2) }
       /\ UNCHANGED <<sessionUser, credentials, cb, conns, connections, timers,
                      nextUuid, uploaded, dropped>>
  ELSE Unauthorized("delete")

\* ---------------------------------------------------- the thumbnail function
\* the external function that derives thumbnails/<user>/thumb_<name> from an
\* uploaded original <user>/<name>, some time after the upload
ThumbnailJob(o) ==
  /\ o \in storage
  /\ \E u \in UserIds :
       /\ StartsWith(o, u \o Slash)
       /\ LET name == SubSeq(o, Len(u) + 2, Len(o))
          IN /\ ThumbPath(u, name) \notin storage
             /\ storage' = storage \cup {ThumbPath(u, name)}
  /\ UNCHANGED <<sessionUser, credentials, cb, conns, connections, timers,
                 nextUuid, uploaded, dropped, reply>>

\* ------------------------------------------------------------ specification
\* names a client may ask to delete: anything, including the names the
\* upload responses told it, bare or behind a path
DeleteNames ==
  ClientNames \cup { u.filename : u \in uploaded }
              \cup { <<".", ".", "/">> \o u.filename : u \in uploaded }

\* whether a delete request can fail for a reason other than 404: only a
\* request for an object that exists can
DeleteFailures(s, rawName, original) ==
  LET name == IF original THEN FilePath(sessionUser[s], basename(rawName))
              ELSE ThumbPath(sessionUser[s], basename(rawName))
  IN IF name \in storage THEN BOOLEAN ELSE {FALSE}

OAuthSteps ==
  \/ \E s \in Sessions, code \in UserIds \cup {None} :
       CallbackStart(s, code) /\ UNCHANGED clientVars
  \/ \E s \in Sessions, ok \in BOOLEAN : CallbackGotToken(s, ok) /\ UNCHANGED clientVars
  \/ \E s \in Sessions, ok \in BOOLEAN : CallbackUserInfo(s, ok) /\ UNCHANGED clientVars

SessionSteps ==
  \/ \E s \in Sessions : AuthMe(s) /\ UNCHANGED clientVars
  \/ \E s \in Sessions, err \in BOOLEAN : Logout(s, err) /\ UNCHANGED clientVars

SocketSteps ==
  \/ \E s \in Sessions : WsOpen(s) /\ UNCHANGED clientVars
  \/ \E c \in 1..MaxConns : WsClose(c) /\ UNCHANGED clientVars
  \/ \E t \in timers : TimerFire(t) /\ UNCHANGED clientVars

StorageSteps ==
  \/ \E s \in Sessions, fails \in BOOLEAN : GetImages(s, fails) /\ UNCHANGED clientVars
  \/ \E s \in Sessions, f \in DeleteNames :
       \E f1 \in DeleteFailures(s, f, TRUE), f2 \in DeleteFailures(s, f, FALSE) :
         DeleteImage(s, f, f1, f2) /\ UNCHANGED clientVars

Upload(names) ==
  \/ \E s \in Sessions : PostImages(s, FALSE, << >>, TRUE) /\ UNCHANGED clientVars
  \/ \E s \in Sessions, f \in names, ok \in BOOLEAN :
       PostImages(s, TRUE, f, ok) /\ UNCHANGED clientVars

Thumbnailing == \E o \in storage : ThumbnailJob(o) /\ UNCHANGED clientVars

\* --------------------------------------------------- the browser: Dashboard
\* what a socket message can be: the server's notification, JSON of another
\* type, or text JSON.parse throws on
MessageKinds == {"PROCESSING_COMPLETE", "OTHER", "unparseable"}

\* setRefreshKey(prevKey => prevKey + 1): the updater sees the latest value
triggerRefreshStale(prevKey) == 1

triggerRefresh(prevKey) == prevKey + 1

Mounted == dashboard.mounted

\* fetchImages: setIsLoading(true), then ImagesService.getImages() is sent
fetchImages(g) ==
  [g EXCEPT !.isLoading = TRUE,
            !.issued = @ + 1,
            !.fetches = @ \cup {[id |-> g.issued + 1, phase |-> "sent",
                                 ok |-> TRUE, data |-> {}]}]

\* the first commit of Dashboard: its effects run together, Notifications
\* opens the socket and ImageList's effect calls fetchImages
DashboardMount ==
  /\ ~Mounted
  /\ ~dashboard.unmounted
  /\ dashboard' = [dashboard EXCEPT !.mounted = TRUE,
                                    !.socket = "connecting",
                                    !.opened = @ + 1,
                                    !.rendered = dashboard.refreshKey,
                                    !.fetches = @ + 1]
  /\ gallery' = fetchImages(gallery)
  /\ UNCHANGED <<serverVars, uploader>>

\* socket.onmessage: only a parsed message of type PROCESSING_COMPLETE calls
\* onMessage(); a parse error is caught and logged. The state update is only
\* queued here: ImageList re-renders in a later step
onmessage(kind) ==
  /\ Mounted
  /\ dashboard.socket = "open"
  /\ dashboard.complete + dashboard.other < MaxMessages
  /\ dashboard' =
       IF kind = "PROCESSING_COMPLETE"
       THEN [dashboard EXCEPT !.complete = @ + 1, !.last = kind,
                              !.refreshKey = triggerRefresh(@)]
       ELSE [dashboard EXCEPT !.other = @ + 1, !.last = kind]
  /\ UNCHANGED <<serverVars, uploader, gallery>>

\* useCallback(fn, deps) hands out a new function only when deps differ
\* from those of the previous render; triggerRefresh has the deps []
NoMemo(deps, prevDeps) == TRUE

useCallbackChanged(deps, prevDeps) == deps # prevDeps

\* the effect of Notifications on a re-render: it runs again only when its
\* dependency onMessage has changed, and then its cleanup closes the old
\* socket and a new one is opened
NotificationsEffect(d, changed) ==
  IF changed THEN [d EXCEPT !.socket = "connecting", !.opened = @ + 1] ELSE d

\* Dashboard re-renders with the changed refreshKey: Notifications gets
\* onMessage again, and ImageList's useEffect calls fetchImages because its
\* dependency differs from the last render's
ImageListEffect ==
  /\ Mounted
  /\ dashboard.rendered # dashboard.refreshKey
  /\ dashboard' =
       NotificationsEffect([dashboard EXCEPT !.rendered = dashboard.refreshKey,
                                             !.fetches = @ + 1],
                           useCallbackChanged(<< >>, << >>))
  /\ gallery' = fetchImages(gallery)
  /\ UNCHANGED <<serverVars, uploader>>

\* socket.onopen: only logs
onopen ==
  /\ Mounted
  /\ dashboard.socket = "connecting"
  /\ dashboard' = [dashboard EXCEPT !.socket = "open"]
  /\ UNCHANGED <<serverVars, uploader, gallery>>

\* the connection fails or is closed by the other side: socket.onerror and
\* socket.onclose only log
onclose ==
  /\ Mounted
  /\ dashboard.socket \in {"connecting", "open"}
  /\ dashboard' = [dashboard EXCEPT !.socket = "closed"]
  /\ UNCHANGED <<serverVars, uploader, gallery>>

\* Dashboard unmounts: the cleanup of Notifications' effect calls
\* socket.close()
DashboardUnmount ==
  /\ Mounted
  /\ dashboard' = [dashboard EXCEPT !.mounted = FALSE, !.unmounted = TRUE,
                                    !.socket = "closed"]
  /\ UNCHANGED <<serverVars, uploader, gallery>>

DashboardSteps ==
  \/ DashboardMount
  \/ \E kind \in MessageKinds : onmessage(kind)
  \/ ImageListEffect
  \/ onopen
  \/ onclose
  \/ DashboardUnmount

\* ----------------------------------------------- the browser: ImageUploader
\* files the user can pick or drop, with their MIME type and size in bytes
FileNames == {"cat.png", "dog.jpg", "notes.txt", "big.png"}

FileType(f) ==
  CASE f = "cat.png" -> <<"image", "png">>
    [] f = "dog.jpg" -> <<"image", "jpeg">>
    [] f = "notes.txt" -> <<"text", "plain">>
    [] f = "big.png" -> <<"image", "png">>

MAX_FILE_SIZE == 5 * 1024 * 1024

FileSize(f) ==
  CASE f = "cat.png" -> MAX_FILE_SIZE
    [] f = "dog.jpg" -> 1024
    [] f = "notes.txt" -> 1024
    [] f = "big.png" -> MAX_FILE_SIZE + 1

\* selectedFile.type.startsWith('image/')
AnyType(f) == TRUE

IsImage(f) == FileType(f)[1] = "image"

\* handleFileSelect, called by handleFileChange and by handleDrop: a file that
\* fails a check only raises a toast; otherwise the file is set, the status
\* goes back to 'idle' and a new FileReader starts reading
handleFileSelect(selectedFile) ==
  /\ uploader.selects < MaxSelects
  /\ uploader' =
       IF ~IsImage(selectedFile)
       THEN [uploader EXCEPT !.selects = @ + 1, !.toasts = @ \cup {"type"}]
       ELSE IF FileSize(selectedFile) > MAX_FILE_SIZE
       THEN [uploader EXCEPT !.selects = @ + 1, !.toasts = @ \cup {"size"}]
       ELSE [uploader EXCEPT
               !.selects = @ + 1,
               !.file = selectedFile,
               !.status = "idle",
               !.reads = @ \cup {[n |-> uploader.selects + 1, file |-> selectedFile]}]
  /\ UNCHANGED <<serverVars, dashboard, gallery>>

\* reader.onloadend of one of the readers: setPreview(reader.result), which is
\* the file's data URL, or null when the read failed
onloadend(r, ok) ==
  /\ r \in uploader.reads
  /\ uploader' = [uploader EXCEPT !.reads = @ \ {r},
                                  !.preview = IF ok THEN r.file ELSE "null"]
  /\ UNCHANGED <<serverVars, dashboard, gallery>>

\* <button type="submit" disabled={!file || status === 'uploading'}>
SubmitDisabled == uploader.file = "null" \/ uploader.status = "uploading"

\* handleSubmit up to its await: the request for the current file is sent
handleSubmit ==
  /\ ~SubmitDisabled
  /\ uploader' = [uploader EXCEPT !.status = "uploading",
                                  !.inflight = @ + 1,
                                  !.sent = @ \cup {uploader.file}]
  /\ UNCHANGED <<serverVars, dashboard, gallery>>

\* handleSubmit after its await: uploadImage resolved or rejected
uploadSettled(ok) ==
  /\ uploader.inflight > 0
  /\ uploader' =
       IF ok
       THEN [uploader EXCEPT !.inflight = @ - 1, !.status = "success",
                             !.file = "null", !.preview = "null"]
       ELSE [uploader EXCEPT !.inflight = @ - 1, !.status = "error"]
  /\ UNCHANGED <<serverVars, dashboard, gallery>>

UploaderSteps ==
  \/ \E f \in FileNames : handleFileSelect(f)
  \/ \E r \in uploader.reads, ok \in BOOLEAN : onloadend(r, ok)
  \/ handleSubmit
  \/ \E ok \in BOOLEAN : uploadSettled(ok)

\* --------------------------------------------------- the browser: ImageList
\* the session whose cookie the browser sends
BrowserSession == "s1"

\* fullUrl.split('/').slice(-2).join('/'), then .split('?')[0]: the last two
\* path segments of the URL, without its query string (kept apart, as signedAt)
LastTwoSegments(url) ==
  LET slashes == { i \in 1..Len(url) : url[i] = "/" }
  IN IF Cardinality(slashes) < 2 THEN url
     ELSE LET last == CHOOSE i \in slashes : \A j \in slashes : j <= i
              prev == CHOOSE i \in slashes \ {last} : \A j \in slashes \ {last} : j <= i
          IN SubSeq(url, prev + 1, Len(url))

\* the entries of a listing as the browser gets them: each URL carries the
\* signature made in the second `at`
Signed(files, at) ==
  { [thumbnailUrl |-> e.thumbnailUrl, fullUrl |-> e.fullUrl, signedAt |-> at] :
    e \in files }

\* the server answers the getImages call f; its URLs are signed in the second
\* of the last listing or in a later one
ListAnswered(f, fails, at) ==
  /\ f \in gallery.fetches
  /\ f.phase = "sent"
  /\ at \in {gallery.clock, gallery.clock + 1}
  /\ GetImages(BrowserSession, fails)
  /\ gallery' = [gallery EXCEPT
       !.clock = at,
       !.fetches = (@ \ {f}) \cup
          {[f EXCEPT !.phase = "answered", !.ok = reply'.status = 200,
                     !.data = Signed(reply'.files, at)]}]
  /\ UNCHANGED <<dashboard, uploader>>

\* the promise of the getImages call f settles: .then(setImages) or .catch,
\* and .finally(setIsLoading(false))
getImagesSettled(f) ==
  /\ f \in gallery.fetches
  /\ f.phase = "answered"
  /\ gallery' = [gallery EXCEPT
       !.images = IF f.ok THEN f.data ELSE @,
       !.shownFrom = IF f.ok THEN f.id ELSE @,
       !.isLoading = FALSE,
       !.fetches = @ \ {f}]
  /\ UNCHANGED <<serverVars, dashboard, uploader>>

\* handleDelete up to its await, for an image of the rendered list (nothing
\* is rendered while isLoading): the delete request is sent.  The user does
\* not click an image's button again while its delete is under way
handleDelete(img) ==
  /\ Mounted
  /\ ~gallery.isLoading
  /\ img \in gallery.images
  /\ \A d \in gallery.deletes : d.img.fullUrl # img.fullUrl
  /\ LastTwoSegments(img.fullUrl) # << >>
  /\ gallery' = [gallery EXCEPT
       !.deletes = @ \cup {[img |-> img, before |-> gallery.issued,
                           phase |-> "sent", status |-> 0]}]
  /\ UNCHANGED <<serverVars, dashboard, uploader>>

\* the server answers the delete request d
DeleteAnswered(d, fails1, fails2) ==
  /\ d \in gallery.deletes
  /\ d.phase = "sent"
  /\ DeleteImage(BrowserSession, LastTwoSegments(d.img.fullUrl), fails1, fails2)
  /\ gallery' = [gallery EXCEPT
       !.deletes = (@ \ {d}) \cup
          {[d EXCEPT !.phase = "answered", !.status = reply'.status]}]
  /\ UNCHANGED <<dashboard, uploader>>

\* the list without the images whose fullUrl is that of img
Without(images, img) ==
  { i \in images : <<i.fullUrl, i.signedAt>> # <<img.fullUrl, img.signedAt>> }

\* handleDelete after its await: on success the image is filtered out of the
\* current list by its fullUrl; on failure only a toast is shown
deleteImageSettled(d) ==
  /\ d \in gallery.deletes
  /\ d.phase = "answered"
  /\ gallery' =
       IF d.status = 200
       THEN [gallery EXCEPT
               !.images = Without(@, d.img),
               !.gone = @ \cup {[fullUrl |-> d.img.fullUrl, before |-> d.before]},
               !.deletes = @ \ {d}]
       ELSE [gallery EXCEPT !.deletes = @ \ {d}]
  /\ UNCHANGED <<serverVars, dashboard, uploader>>

GallerySteps ==
  \/ \E f \in gallery.fetches, fails \in BOOLEAN, at \in 0..(MaxRefreshes + 1) :
       ListAnswered(f, fails, at)
  \/ \E f \in gallery.fetches : getImagesSettled(f)
  \/ \E img \in gallery.images : handleDelete(img)
  \/ \E d \in gallery.deletes :
       \E f1 \in DeleteFailures(BrowserSession, LastTwoSegments(d.img.fullUrl), TRUE),
          f2 \in DeleteFailures(BrowserSession, LastTwoSegments(d.img.fullUrl), FALSE) :
         DeleteAnswered(d, f1, f2)
  \/ \E d \in gallery.deletes : deleteImageSettled(d)

\* the server and one browser
Next ==
  \/ OAuthSteps
  \/ SessionSteps
  \/ SocketSteps
  \/ StorageSteps
  \/ Upload(ClientNames)
  \/ Thumbnailing
  \/ DashboardSteps
  \/ UploaderSteps
  \/ GallerySteps

Spec == Init /\ [][Next]_vars

\* sign-in and sign-out alone
NextAuth == OAuthSteps \/ SessionSteps

SpecAuth == Init /\ [][NextAuth]_vars

\* a state SpecAuth reaches: two accounts signed in, each in its own session,
\* and a third session that never signed in
InitSignedIn ==
  /\ ClientInit
  /\ sessionUser = [s \in Sessions |-> IF s = "s1" THEN <<"1">>
                                       ELSE IF s = "s2" THEN <<"1", "2">> ELSE None]
  /\ credentials = <<"1", "2">>
  /\ reply = LoggedIn
  /\ cb = [s \in Sessions |-> IdleCb]
  /\ conns = << >>
  /\ connections = << >>
  /\ timers = {}
  /\ storage = {}
  /\ nextUuid = 0
  /\ uploaded = {}
  /\ dropped = {}

\* the notification path: sockets, uploads and timers
NextNotify ==
  \/ SocketSteps
  \/ Upload({<<"a", ".", "p">>})

SpecNotify == InitSignedIn /\ [][NextNotify]_vars

\* the notification path next to the thumbnail function
NextPipeline ==
  \/ SocketSteps
  \/ Upload({<<"a", ".", "p">>})
  \/ Thumbnailing

SpecPipeline == InitSignedIn /\ [][NextPipeline]_vars

\* the storage path: every protected route, with any client-chosen file name
NextStore ==
  \/ StorageSteps
  \/ Upload(ClientNames)
  \/ Thumbnailing

SpecStore == InitSignedIn /\ [][NextStore]_vars

\* every protected route, asked by signed-in and signed-out sessions alike
NextGuard ==
  \/ SessionSteps
  \/ StorageSteps
  \/ Upload({<<"a", ".", "p">>})
  \/ Thumbnailing

SpecGuard == InitSignedIn /\ [][NextGuard]_vars

\* the protected routes on an empty bucket while sessions sign in and out
Requests ==
  \/ \E s \in Sessions, fails \in BOOLEAN : GetImages(s, fails) /\ UNCHANGED clientVars
  \/ \E s \in Sessions :
       DeleteImage(s, <<"a", ".", "p">>, FALSE, FALSE) /\ UNCHANGED clientVars
  \/ \E s \in Sessions : PostImages(s, FALSE, << >>, TRUE) /\ UNCHANGED clientVars

NextSession == OAuthSteps \/ SessionSteps \/ Requests

SpecSession == InitSignedIn /\ [][NextSession]_vars

\* sockets, uploads and their notifications while sessions sign out
NextLogout ==
  \/ SessionSteps
  \/ SocketSteps
  \/ Upload({<<"a", ".", "p">>})

SpecLogout == InitSignedIn /\ [][NextLogout]_vars

\* the dashboard of one signed-in browser and the messages its socket gets
NextRefresh == DashboardSteps

SpecRefresh == InitSignedIn /\ [][NextRefresh]_vars

\* the upload form of one signed-in browser
NextUploader == UploaderSteps

SpecUploader == InitSignedIn /\ [][NextUploader]_vars

\* a state SpecPipeline reaches from InitSignedIn: user 1 has uploaded two
\* files, both thumbnails exist, and both timers have fired with no socket open
InitGallery ==
  /\ ClientInit
  /\ sessionUser = [s \in Sessions |-> IF s = "s1" THEN <<"1">>
                                       ELSE IF s = "s2" THEN <<"1", "2">> ELSE None]
  /\ credentials = <<"1", "2">>
  /\ cb = [s \in Sessions |-> IdleCb]
  /\ conns = << >>
  /\ connections = << >>
  /\ timers = {}
  /\ nextUuid = 2
  /\ LET names == { UniqueFilename(k, <<"a", ".", "p">>) : k \in 1..2 }
     IN /\ storage = { FilePath(<<"1">>, n) : n \in names } \cup
                     { ThumbPath(<<"1">>, n) : n \in names }
        /\ uploaded = { [userId |-> <<"1">>, filename |-> n] : n \in names }
        /\ dropped = names
        /\ reply = [Reply("upload", 200) EXCEPT
                      !.files = {UniqueFilename(2, <<"a", ".", "p">>)}]

\* the image list of one signed-in browser, its refreshes and its deletes
NextGallery ==
  \/ DashboardMount
  \/ onmessage("PROCESSING_COMPLETE") /\ dashboard.complete < MaxRefreshes
  \/ ImageListEffect
  \/ onopen
  \/ GallerySteps

SpecGallery == InitGallery /\ [][NextGallery]_vars

\* ------------------------------------------------------------------ claims
Conns == DOMAIN conns

Registered == { connections[k] : k \in DOMAIN connections }

\* how many PROCESSING_COMPLETE messages for file f were sent, on any socket
Sent(f) ==
  Cardinality({ ci \in { <<c, i>> : c \in Conns, i \in 1..MaxUploads } :
                  /\ ci[2] <= Len(conns[ci[1]].inbox)
                  /\ conns[ci[1]].inbox[ci[2]].filename = f })

\* C1: a PROCESSING_COMPLETE message is only ever found on a socket that was
\* registered under the user id of the user who made that upload
C1_OnlyUploaderNotified ==
  \A c \in Conns : \A i \in 1..Len(conns[c].inbox) :
    /\ conns[c].user # None
    /\ [userId |-> conns[c].user, filename |-> conns[c].inbox[i].filename] \in uploaded

\* a notification was delivered while another user had a socket registered
C1_Witness ==
  \E c \in Conns, d \in Conns :
    /\ conns[c].inbox # << >>
    /\ conns[d].user \notin {None, conns[c].user}
    /\ d \in Registered
    /\ Len(conns[d].inbox) = 0

\* C2: when the timer of an upload by U fires while U has an open socket that
\* was accepted for U, the message is sent on an open socket of U
C2_SentWhenConnected ==
  [][\A t \in timers :
       (TimerFire(t) /\ \E c \in Conns : conns[c].open /\ conns[c].user = t.userId)
       => \E c \in Conns : /\ conns[c].open
                           /\ conns[c].user = t.userId
                           /\ Len(conns'[c].inbox) = Len(conns[c].inbox) + 1]_vars

\* C8: an entry of the registry for user U is a socket that is open, was
\* registered by U, and is the one U registered last
C8_RegistryLive ==
  \A u \in DOMAIN connections :
    LET c == connections[u]
    IN /\ c \in Conns
       /\ conns[c].open
       /\ conns[c].user = u
       /\ \A d \in Conns : conns[d].user = u => d <= c

\* the registry holds the second socket of a user whose first is still open
C8_Witness ==
  \E u \in DOMAIN connections : \E d \in Conns :
    /\ d < connections[u]
    /\ conns[d].user = u
    /\ conns[d].open

\* C9: an upload leads to at most one message in total, and none at all once
\* its timer has fired without a registry entry, whatever happens afterwards
C9_AtMostOnce ==
  \A u \in uploaded :
    /\ Sent(u.filename) <= 1
    /\ u.filename \in dropped =>
         /\ Sent(u.filename) = 0
         /\ \A t \in timers : t.filename # u.filename

\* a notification was dropped and its user has a registered socket now
C9_Witness ==
  \E u \in uploaded :
    /\ u.filename \in dropped
    /\ MapHas(connections, u.userId)
    /\ timers = {}

\* C10: a socket accepted for a session without a user is closed, has no
\* close listener, is not in the registry and has received nothing
C10_AnonymousRejected ==
  \A c \in Conns :
    conns[c].user = None =>
      /\ ~conns[c].open
      /\ ~conns[c].handler
      /\ c \notin Registered
      /\ conns[c].inbox = << >>

\* an anonymous socket came and went while a user was registered and notified
C10_Witness ==
  \E c \in Conns, d \in Conns :
    /\ conns[c].user = None
    /\ c < d
    /\ d \in Registered
    /\ conns[d].inbox # << >>

\* C3: a PROCESSING_COMPLETE message for a file is sent to its user only when
\* the thumbnail of that file exists in storage
C3_NotifiedAfterThumbnail ==
  [][\A c \in Conns :
       Len(conns'[c].inbox) > Len(conns[c].inbox)
       => ThumbPath(conns[c].user, conns'[c].inbox[Len(conns'[c].inbox)].filename)
            \in storage]_vars

\* object o lies under <u>/ or under thumbnails/<u>/
Owns(u, o) ==
  \/ StartsWith(o, u \o <<"/">>)
  \/ StartsWith(o, ThumbnailsDir \o u \o <<"/">>)

IsUpload(s) ==
  \E hasFile \in BOOLEAN, f \in ClientNames, ok \in BOOLEAN : PostImages(s, hasFile, f, ok)

IsDelete(s) ==
  \E f \in DeleteNames, f1 \in BOOLEAN, f2 \in BOOLEAN : DeleteImage(s, f, f1, f2)

\* C4: whatever file name the client sends, the objects an upload or a delete
\* request of user U adds to or removes from storage lie under U's prefixes
C4_OwnPrefixOnly ==
  [][storage' # storage =>
       \A s \in Sessions :
         (IsUpload(s) \/ IsDelete(s)) =>
           \A o \in (storage' \ storage) \cup (storage \ storage') :
             Owns(sessionUser[s], o)]_vars

\* a delete succeeded while the original and the thumbnail of another user
\* were, and still are, in storage
C4_Witness ==
  /\ reply.route = "delete"
  /\ reply.status = 200
  /\ \E u \in UserIds, n \in { x.filename : x \in uploaded } :
       /\ (u \o <<"/">> \o n) \in storage
       /\ ThumbPath(u, n) \in storage

\* C5: a listing answered to user U names only thumbnails stored under
\* thumbnails/<U>/, and every URL in it is for an object under U's prefixes
C5_ListsOwnOnly ==
  [][\A s \in Sessions :
       (reply'.route = "list" /\ GetImages(s, FALSE)) =>
         \A e \in reply'.files :
           /\ e.thumbnailUrl \in storage
           /\ StartsWith(e.thumbnailUrl, ThumbnailsDir \o sessionUser[s] \o <<"/">>)
           /\ Owns(sessionUser[s], e.fullUrl)]_vars

\* a listing with entries was answered while storage held a thumbnail that
\* the listing does not name: another user's
C5_Witness ==
  /\ reply.route = "list"
  /\ reply.status = 200
  /\ reply.files # {}
  /\ \E o \in storage :
       /\ StartsWith(o, ThumbnailsDir)
       /\ o \notin { e.thumbnailUrl : e \in reply.files }

IsProtected(s) ==
  \/ AuthMe(s)
  \/ \E err \in BOOLEAN : Logout(s, err)
  \/ \E fails \in BOOLEAN : GetImages(s, fails)
  \/ IsUpload(s)
  \/ IsDelete(s)

\* C6: a request to a protected route by a session without a user is answered
\* 401 and leaves storage, sessions, sockets, registry and timers as they were
C6_UnauthorizedChangesNothing ==
  [][\A s \in Sessions :
       (sessionUser[s] = None /\ IsProtected(s)) =>
         /\ reply'.status = 401
         /\ UNCHANGED <<storage, sessionUser, conns, connections, timers>>]_vars

\* a 401 was answered to a delete while storage held objects and a timer ran
C6_Witness ==
  /\ reply.route = "delete"
  /\ reply.status = 401
  /\ \E o \in storage : StartsWith(o, ThumbnailsDir)
  /\ timers # {}

\* C7: when a callback request completes successfully, the user put in its
\* session is the account whose authorization code that request presented
C7_SessionGetsOwnAccount ==
  [][\A s \in Sessions :
       CallbackUserInfo(s, TRUE) => sessionUser'[s] = cb[s].code]_vars

\* a sign-in completed while the shared client held the tokens of another
\* callback that is still waiting for its userinfo response
C7_Witness ==
  /\ reply = LoggedIn
  /\ \E s \in Sessions, r \in Sessions :
       /\ s # r
       /\ cb[r].pc = "userinfo"
       /\ cb[s].pc = "idle"
       /\ credentials = cb[r].code
       /\ sessionUser[s] \notin {None, cb[r].code}

\* the DELETE /api/images/:filename request of session s for the name f
DeleteRequest(s, f) ==
  \E f1 \in BOOLEAN, f2 \in BOOLEAN : DeleteImage(s, f, f1, f2)

\* the names a listing answered to userId gives for the image called name
Listed(userId, store, name) ==
  { e \in ImageList(userId, store) :
      \/ e.thumbnailUrl = ThumbPath(userId, name)
      \/ e.fullUrl = FilePath(userId, name) }

\* C11: when a delete request of user U for a name is answered 200, storage
\* holds neither <U>/<name> nor thumbnails/<U>/thumb_<name> afterwards, for the
\* name as sent and for its base name, and the listing GET /api/images then
\* computes for U has no entry for that image
C11_DeletedIsGone ==
  [][(reply'.route = "delete" /\ reply'.status = 200) =>
       \A s \in Sessions, f \in DeleteNames :
         DeleteRequest(s, f) =>
           \A name \in {f, basename(f)} :
             /\ FilePath(sessionUser[s], name) \notin storage'
             /\ ThumbPath(sessionUser[s], name) \notin storage'
             /\ Listed(sessionUser[s], storage', name) = {}]_vars

\* a delete was answered 200, an uploaded image of some user is gone with its
\* thumbnail, and that user still has another image listed
C11_Witness ==
  /\ reply.route = "delete"
  /\ reply.status = 200
  /\ \E u \in uploaded :
       /\ FilePath(u.userId, u.filename) \notin storage
       /\ ThumbPath(u.userId, u.filename) \notin storage
       /\ ImageList(u.userId, storage) # {}

\* C13: a delete request answered 404 or 500 has removed nothing from storage
C13_FailedDeleteKeepsStorage ==
  [][(reply'.route = "delete" /\ reply'.status \in {404, 500}) =>
       \A s \in Sessions, f \in DeleteNames :
         DeleteRequest(s, f) => storage' = storage]_vars

\* C12 as stated: once the list has re-rendered with the latest counter, one
\* fetch has been issued for the mount and one for each PROCESSING_COMPLETE
\* message handled
C12_OneFetchPerMessage ==
  (Mounted /\ dashboard.rendered = dashboard.refreshKey)
    => dashboard.fetches = 1 + dashboard.complete

\* C12: the refresh counter is the number of PROCESSING_COMPLETE messages
\* handled, whatever other or unparseable messages came between them; the
\* fetches issued are the mount's plus at most one per such message, and once
\* the list has re-rendered with the latest counter a fetch has followed the
\* last such message
C12_RefreshPerMessage ==
  /\ dashboard.refreshKey = dashboard.complete
  /\ Mounted =>
       /\ dashboard.rendered \in 0..dashboard.refreshKey
       /\ dashboard.fetches \in 1..(1 + dashboard.complete)
       /\ dashboard.rendered = dashboard.refreshKey =>
            (dashboard.fetches = 1 <=> dashboard.complete = 0)

\* two notifications were handled before the list re-rendered, one of them
\* after a message of another kind, and the list has fetched once for both
C12_Witness ==
  /\ dashboard.other > 0
  /\ dashboard.last = "PROCESSING_COMPLETE"
  /\ dashboard.complete >= 2
  /\ dashboard.rendered = dashboard.refreshKey
  /\ dashboard.fetches = 2

\* C14: a message is sent on a connection only while the session the
\* connection was opened under still has its user
C14_NoSendAfterLogout ==
  [][\A c \in DOMAIN conns :
       Len(conns'[c].inbox) > Len(conns[c].inbox)
         => sessionUser[conns[c].sess] # None]_vars

\* C15: a logout answered 200 leaves its session without a user; a session
\* without a user gets one only by a callback request of that session that
\* completes successfully; and as long as it has none, each of its requests to
\* a protected route is answered 401
C15_LoggedOutUntilCallback ==
  [][\A s \in Sessions :
       /\ (reply'.route = "logout" /\ reply'.status = 200 /\ Logout(s, FALSE))
            => sessionUser'[s] = None
       /\ (sessionUser[s] = None /\ sessionUser'[s] # None)
            => CallbackUserInfo(s, TRUE)
       /\ (sessionUser[s] = None /\ reply'.status # 401) => ~IsProtected(s)]_vars

\* a session that was signed in has no user, its new callback is still waiting
\* for the user info, and its request for the images was answered 401 while
\* another session is signed in
C15_Witness ==
  /\ sessionUser["s1"] = None
  /\ cb["s1"].pc = "userinfo"
  /\ reply.route = "list"
  /\ reply.status = 401
  /\ sessionUser["s2"] # None

\* a step in which the callback request of session s ends in its catch block
CallbackFails(s) ==
  \/ CallbackUserInfo(s, FALSE)
  \/ \E ok \in BOOLEAN : CallbackGotToken(s, ok) /\ cb'[s].pc = "idle"

\* C16: a callback request whose token exchange or user-info request fails
\* leaves every session's user as it was and redirects to the login-failed
\* page; a session gets a user only in the step that ends a callback request
\* whose token exchange and user-info request have both succeeded
C16_FailedCallbackSetsNothing ==
  [][\A s \in Sessions :
       /\ CallbackFails(s) =>
            /\ sessionUser' = sessionUser
            /\ reply'.route = "callback"
            /\ reply'.to = "login-failed"
       /\ sessionUser'[s] \notin {sessionUser[s], None} =>
            /\ cb[s].pc = "userinfo"
            /\ cb[s].hdr = cb[s].code
            /\ CallbackUserInfo(s, TRUE)]_vars

\* a token exchange succeeded, yet no session has a user, no callback is in
\* progress and the last answer was the redirect to the login-failed page
C16_Witness ==
  /\ reply.to = "login-failed"
  /\ credentials # None
  /\ \A s \in Sessions : sessionUser[s] = None /\ cb[s].pc = "idle"

\* C17: an upload request arms a timer only for a file that its own write has
\* put in storage, and the timer of a request answered 200 is armed when the
\* answer is given; a request answered 400 (no file part) or 500 (the write
\* failed) arms no timer
C17_TimerOnlyAfterWrite ==
  [][\A s \in Sessions :
       IsUpload(s) =>
         /\ \A t \in timers' \ timers :
              /\ FilePath(t.userId, t.filename) \in storage' \ storage
              /\ reply'.status = 200
         /\ reply'.status = 200 =>
              \E t \in timers' \ timers :
                t.userId = sessionUser[s] /\ reply'.files = {t.filename}
         /\ reply'.status # 200 => timers' = timers /\ storage' = storage]_vars

\* two uploads were made, the last one failed in its write and was answered
\* 500, and only the first has a timer
C17_Witness ==
  /\ reply.route = "upload"
  /\ reply.status = 500
  /\ nextUuid = 2
  /\ Cardinality(timers) = 1
  /\ Cardinality(uploaded) = 1

\* C18: an upload answered 200 has written exactly one object, under a name
\* that was not in storage before, and the file name in its answer is the
\* name of that object under the user's prefix and the name its timer
\* carries; a message sent when a timer fires carries that timer's file name
C18_FreshNameEverywhere ==
  [][/\ \A s \in Sessions :
          (reply'.route = "upload" /\ reply'.status = 200 /\ IsUpload(s)) =>
            \E f \in reply'.files :
              /\ reply'.files = {f}
              /\ FilePath(sessionUser[s], f) \notin storage
              /\ storage' = storage \cup {FilePath(sessionUser[s], f)}
              /\ timers' \ timers = {[userId |-> sessionUser[s], filename |-> f]}
     /\ \A t \in timers :
          TimerFire(t) =>
            /\ t \in uploaded
            /\ FilePath(t.userId, t.filename) \in storage
            /\ \A c \in DOMAIN conns :
                 Len(conns'[c].inbox) > Len(conns[c].inbox) =>
                   conns'[c].inbox[Len(conns'[c].inbox)].filename = t.filename]_vars

\* one user has uploaded two files of the same original name, both are in
\* storage under different names, and the notification for one has arrived
C18_Witness ==
  \E u \in uploaded, v \in uploaded :
    /\ u.userId = v.userId
    /\ u.filename # v.filename
    /\ {FilePath(u.userId, u.filename), FilePath(v.userId, v.filename)} \subseteq storage
    /\ \E c \in DOMAIN conns :
         \E i \in 1..Len(conns[c].inbox) : conns[c].inbox[i].filename = u.filename

\* C19: the upload form never has more than one upload request in flight
C19_OneUploadInFlight == uploader.inflight <= 1

\* C20: a preview that is displayed is the preview of the selected file, and
\* none is displayed when no file is selected
C20_PreviewIsOfFile ==
  uploader.preview # "null" => uploader.preview = uploader.file

\* a file whose type starts with image/ and whose size is at most 5 MB
Acceptable(f) ==
  /\ FileType(f)[1] = "image"
  /\ FileSize(f) <= 5 * 1024 * 1024

\* C21: the file the form holds, and every file it has submitted, is an image
\* of at most 5 MB; selecting or dropping a file that is not shows an error
\* toast and leaves the file, the preview, the status, the running reads and
\* the uploads as they were
C21_OnlyAcceptableFiles ==
  [][/\ uploader'.file # "null" => Acceptable(uploader'.file)
     /\ \A f \in uploader'.sent : Acceptable(f)
     /\ \A f \in FileNames :
          (handleFileSelect(f) /\ ~Acceptable(f)) =>
            /\ uploader'.toasts # {}
            /\ uploader'.toasts \ uploader.toasts \subseteq {"type", "size"}
            /\ uploader'.file = uploader.file
            /\ uploader'.preview = uploader.preview
            /\ uploader'.status = uploader.status
            /\ uploader'.reads = uploader.reads
            /\ uploader'.inflight = uploader.inflight
            /\ uploader'.sent = uploader.sent]_vars

\* a file of exactly 5 MB is selected, previewed and being uploaded, after a
\* text file and an image over 5 MB were both refused
C21_Witness ==
  /\ uploader.file = "cat.png"
  /\ uploader.preview = "cat.png"
  /\ uploader.status = "uploading"
  /\ uploader.sent = {"cat.png"}
  /\ uploader.toasts = {"type", "size"}

\* C22: an image for which a successful delete response has been handled is
\* displayed only if the displayed list came from a fetch issued after that
\* delete request was sent
C22_DeletedStaysRemoved ==
  \A g \in gallery.gone :
    (\E img \in gallery.images : img.fullUrl = g.fullUrl)
      => gallery.shownFrom > g.before

\* C23: from its mount on a dashboard has run `new WebSocket` exactly once,
\* whatever refreshes and re-renders followed; once it has unmounted its
\* socket is closed; and a socket that has closed or failed stays closed and
\* no other is opened
C23_OneSocketNoReconnect ==
  [][/\ (dashboard'.mounted \/ dashboard'.unmounted) => dashboard'.opened = 1
     /\ ~(dashboard'.mounted \/ dashboard'.unmounted) => dashboard'.opened = 0
     /\ dashboard'.unmounted => dashboard'.socket = "closed"
     /\ dashboard.socket = "closed" =>
          /\ dashboard'.socket = "closed"
          /\ dashboard'.opened = dashboard.opened]_vars

\* the list was refreshed twice after notifications, the socket then closed
\* while the dashboard stayed mounted, and one socket has been opened in all
C23_Witness ==
  /\ dashboard.mounted
  /\ dashboard.socket = "closed"
  /\ dashboard.complete >= 2
  /\ dashboard.fetches >= 3
  /\ dashboard.opened = 1

====
